---- MODULE Spec2Model ----
(***************************************************************************)
(* Model of the news_collector source-aggregation pipeline:                *)
(*   - sources/base.py      NewsItem, the source registry                  *)
(*   - sources/*.py         the shipped sources (their fetch outcomes)     *)
(*   - skills/news_fetcher  NewsFetcher.fetch_all / fetch_source /         *)
(*                          fetch_sources                                  *)
(* One aggregator call is in flight at a time; inside a call the fetch     *)
(* coroutines scheduled by asyncio.gather finish in any order.             *)
(*   Spec       registration, fetch_all and fetch_source                   *)
(*   SpecNames  fetch_sources on the registry left by source discovery     *)
(*   SpecRT     NewsItem -> to_dict -> NewsItem                            *)
(***************************************************************************)
EXTENDS Integers, Sequences, FiniteSets, TLC

(* ---------------------------- bounds ---------------------------------- *)
MaxUpstream == 2        \* longest upstream list (entries of a page / feed)
MaxLimit == 2           \* largest limit a caller passes
MaxNames == 2           \* longest source_names list passed to fetch_sources
MaxStrLen == 2          \* longest raw title / summary string
MaxCalls == 3           \* registry API calls made after start-up discovery
MaxItems == 3           \* longest item list handed to the dedup step alone

(* ------------------------- small helpers ------------------------------ *)
Min(a, b) == IF a < b THEN a ELSE b

SeqsUpTo(S, n) == UNION {[1..k -> S] : k \in 0..n}

\* faulty variant of Take: the slice is left out
TakeNoLimit(s, n) == s

\* Python slice s[:n]
Take(s, n) == SubSeq(s, 1, Min(n, Len(s)))

(* ------------------------ shipped sources ----------------------------- *)
\* The source classes (three of the shipped ones: a page scrape, an API walk
\* and the RSS source that ships disabled).
Classes == {"GitHubTrendingSource", "HackerNewsSource", "HNRSSSource"}

NoClass == "None"

\* classes a user of the package can write and register: the docstring's
\* MySource, a second class carrying the same name, a NewsSource subclass
\* that does not implement fetch (it keeps the base name "Unknown" and
\* enabled = True), and a class that does not derive from NewsSource
PluginClasses == {"MySource", "MySourceV2", "DraftSource", "NotASource"}

\* issubclass(cls, NewsSource)
IsNewsSource(cls) == cls # "NotASource"

\* cls() succeeds: an ABC with an abstract method left cannot be instantiated
CanConstruct(cls) == cls # "DraftSource"

\* class attribute `name`
NameOf(cls) ==
    CASE cls = "GitHubTrendingSource" -> "GitHubTrending"
      [] cls = "HackerNewsSource" -> "HackerNews"
      [] cls = "HNRSSSource" -> "HNRSS"
      [] cls = "MySource" -> "MySource"
      [] cls = "MySourceV2" -> "MySource"
      [] cls = "DraftSource" -> "Unknown"

\* class attribute `enabled`
Enabled(cls) ==
    CASE cls = "GitHubTrendingSource" -> TRUE
      [] cls = "HackerNewsSource" -> TRUE
      [] cls = "HNRSSSource" -> FALSE
      [] cls = "MySource" -> TRUE
      [] cls = "MySourceV2" -> TRUE
      [] cls = "DraftSource" -> TRUE

\* names a caller may ask for: the registered ones and one unknown name
SourceNames == {NameOf(cls) : cls \in Classes} \cup {"Missing"}

\* urls an upstream record can carry; "" is the empty url
Urls == {"", "u1", "u2"}

\* GitHubTrending builds "https://github.com/" + a non-empty path, so its
\* urls are never empty; HackerNews takes data.get("url", ...) and the RSS
\* sources take entry.get("link", ""), which may be empty.
UrlsOf(cls) == IF cls = "GitHubTrendingSource" THEN Urls \ {""} ELSE Urls

\* RSSSourceBase.fetch catches every Exception; the other two let the
\* network errors of aiohttp escape from fetch.
CanRaise(cls) == cls # "HNRSSSource"

\* the NewsItems a source builds from the upstream records `up`: the i-th
\* record's payload is its title, source is the class's own name
ItemsOf(cls, up) ==
    [i \in 1..Len(up) |-> [title |-> i, url |-> up[i], source |-> NameOf(cls)]]

\* what a source finds upstream: how the first request ended ("ok" = status
\* 200, "status" = another status, "error" = the request raised) and the
\* entries of the page / id list / feed; ok tells whether an entry yields an
\* item (a repo link, a story that loads, an entry with a title)
Upstreams(cls) ==
    [net : {"ok", "status", "error"},
     entries : SeqsUpTo([url : UrlsOf(cls), ok : BOOLEAN], MaxUpstream)]

EntryOk(e) == e.ok

\* the list fetch(limit) returns when it returns: nothing on a bad status or
\* a caught error, else the items of the usable ones among the first `limit`
\* entries, in upstream order
SourceFetch(cls, up, limit) ==
    IF up.net # "ok" THEN <<>>
    ELSE LET kept == SelectSeq(Take(up.entries, limit), EntryOk)
         IN ItemsOf(cls, [i \in 1..Len(kept) |-> kept[i].url])

\* fetch(limit) raises instead of returning
SourceFetchRaises(cls, up) == up.net = "error" /\ CanRaise(cls)

\* every list fetch(limit) can return, per class and limit
FetchResultsTable ==
    [cls \in Classes, limit \in 1..MaxLimit |->
        {SourceFetch(cls, up, limit) :
            up \in {u \in Upstreams(cls) : ~ SourceFetchRaises(cls, u)}}]

\* what fetch(limit) can return
FetchResults(cls, limit) == FetchResultsTable[cls, limit]

(* --------------------------- registry --------------------------------- *)
\* _registry is a dict keyed by name; it is modelled as the sequence of its
\* values in insertion order.
HasName(reg, name) == \E i \in 1..Len(reg) : NameOf(reg[i]) = name

\* faulty variant of RegisterSource: a name already taken keeps its class
RegisterSourceKeepFirst(reg, cls) ==
    IF HasName(reg, NameOf(cls)) THEN reg ELSE Append(reg, cls)

\* _registry[cls.name] = cls
RegisterSource(reg, cls) ==
    IF HasName(reg, NameOf(cls))
    THEN [i \in 1..Len(reg) |->
            IF NameOf(reg[i]) = NameOf(cls) THEN cls ELSE reg[i]]
    ELSE Append(reg, cls)

\* a mapping handed to a caller: ref tells which object it is (a dict of its
\* own, or the registry itself), val is the content of a dict of its own
NoSnap == [ref |-> "none", val |-> <<>>]

\* faulty variant of GetAllSources: the registry itself is handed out
GetAllSourcesAlias(reg) == [ref |-> "registry", val |-> <<>>]

\* _registry.copy()
GetAllSources(reg) == [ref |-> "copy", val |-> reg]

\* del d[k] for the first key of a mapping
PopFirst(d) == IF d = <<>> THEN d ELSE Tail(d)

\* faulty variant of GetEnabledSources: the enabled filter is dropped
GetEnabledSourcesNoFilter(reg) == reg

GetEnabledSources(reg) == SelectSeq(reg, Enabled)

\* faulty variant of GetSource: the lookup only sees enabled sources
GetSourceEnabledOnly(reg, name) ==
    IF \E i \in 1..Len(reg) : NameOf(reg[i]) = name /\ Enabled(reg[i])
    THEN reg[CHOOSE i \in 1..Len(reg) : NameOf(reg[i]) = name]
    ELSE NoClass

\* faulty variant of GetSource: an unknown name falls back to the first registration
GetSourceFallback(reg, name) ==
    IF \E i \in 1..Len(reg) : NameOf(reg[i]) = name
    THEN reg[CHOOSE i \in 1..Len(reg) : NameOf(reg[i]) = name]
    ELSE IF reg # <<>> THEN reg[1] ELSE NoClass

GetSource(reg, name) ==
    IF HasName(reg, name)
    THEN reg[CHOOSE i \in 1..Len(reg) : NameOf(reg[i]) = name]
    ELSE NoClass

(* -------------------------- aggregator -------------------------------- *)
\* the URL-dedup loop shared by fetch_all and fetch_sources
RECURSIVE DedupLoop(_, _, _)
DedupLoop(items, seen_urls, unique_items) ==
    IF items = <<>> THEN unique_items
    ELSE LET item == Head(items) IN
         IF item.url # "" /\ item.url \notin seen_urls
         THEN DedupLoop(Tail(items), seen_urls \cup {item.url},
                        Append(unique_items, item))
         ELSE DedupLoop(Tail(items), seen_urls, unique_items)

\* faulty variant of UrlDedup: the last occurrence of a url survives, not the first
RECURSIVE KeepLastLoop(_)
KeepLastLoop(items) ==
    IF items = <<>> THEN <<>>
    ELSE LET item == Head(items) IN
         IF item.url # "" /\ \A j \in 2..Len(items) : items[j].url # item.url
         THEN <<item>> \o KeepLastLoop(Tail(items))
         ELSE KeepLastLoop(Tail(items))

UrlDedupKeepLast(all_items) == KeepLastLoop(all_items)

\* faulty variant of UrlDedup: a repeated url is taken out of seen_urls again,
\* so every other occurrence of it survives
RECURSIVE ToggleLoop(_, _, _)
ToggleLoop(items, seen_urls, unique_items) ==
    IF items = <<>> THEN unique_items
    ELSE LET item == Head(items) IN
         IF item.url # "" /\ item.url \notin seen_urls
         THEN ToggleLoop(Tail(items), seen_urls \cup {item.url},
                         Append(unique_items, item))
         ELSE ToggleLoop(Tail(items), seen_urls \ {item.url}, unique_items)

UrlDedupToggle(all_items) == ToggleLoop(all_items, {}, <<>>)

UrlDedup(all_items) == DedupLoop(all_items, {}, <<>>)

\* faulty variant of UrlDedupSources: seen_urls is never consulted
UrlDedupSourcesNoSeen(all_items) == SelectSeq(all_items, LAMBDA item : item.url # "")

\* the same loop as written a second time in fetch_sources
UrlDedupSources(all_items) == DedupLoop(all_items, {}, <<>>)

\* a gathered result is a finished task: a list (st = "returned") or an
\* exception object (st = "raised")
Finished == {"returned", "raised"}

\* faulty variant of GatherDone: gather without return_exceptions, which hands the
\* first exception to its caller at once
GatherDoneFirstException(ts) ==
    \/ \A i \in 1..Len(ts) : ts[i].st \in Finished
    \/ \E i \in 1..Len(ts) : ts[i].st = "raised"

\* asyncio.gather(*tasks, return_exceptions=True) completes when every
\* awaitable has completed
GatherDone(ts) == \A i \in 1..Len(ts) : ts[i].st \in Finished

\* faulty variant of AllItems: the loop breaks at the first exception
RECURSIVE AllItemsBreak(_)
AllItemsBreak(results) ==
    IF results = <<>> THEN <<>>
    ELSE IF Head(results).st = "returned"
         THEN Head(results).val \o AllItemsBreak(Tail(results))
         ELSE <<>>

\* fetch_all's merge loop: exceptions are skipped, lists are extended
RECURSIVE AllItems(_)
AllItems(results) ==
    IF results = <<>> THEN <<>>
    ELSE (IF Head(results).st = "returned" THEN Head(results).val ELSE <<>>)
         \o AllItems(Tail(results))

\* faulty variant of FailureLog: the k-th failure is given the k-th
\* instance's name
FailureLogMisaligned(results, source_instances) ==
    [k \in 1..Cardinality({j \in 1..Len(results) : results[j].st = "raised"}) |->
        [msg |-> "fetch_failed", name |-> NameOf(source_instances[k])]]

\* the failure lines fetch_all prints: one per exception, with
\* source_instances[i].name
RECURSIVE FailureLog(_, _)
FailureLog(results, source_instances) ==
    IF results = <<>> THEN <<>>
    ELSE (IF Head(results).st = "raised"
          THEN <<[msg |-> "fetch_failed", name |-> NameOf(Head(source_instances))]>>
          ELSE <<>>)
         \o FailureLog(Tail(results), Tail(source_instances))

\* fetch_sources' merge loop: only lists are extended
RECURSIVE CollectLists(_)
CollectLists(results) ==
    IF results = <<>> THEN <<>>
    ELSE (IF Head(results).st = "returned" THEN Head(results).val ELSE <<>>)
         \o CollectLists(Tail(results))

\* how an awaited fetch_source ends for its caller: the awaited value is
\* returned, an exception of fetch propagates
AwaitOutcome(t) ==
    IF t.st = "returned" THEN [kind |-> "return", items |-> t.val]
    ELSE [kind |-> "raise", items |-> <<>>]

NoRet == [kind |-> "none", items |-> <<>>]
NoCall == [op |-> "none", limit |-> 0, names |-> <<>>]

(* ------------------------- NewsItem model ----------------------------- *)
\* Strings of the round trip are sequences of characters; " " is whitespace.
Chars == {" ", "a"}
Strs == SeqsUpTo(Chars, MaxStrLen)

\* Python's None, told apart from every string
NoneStr == <<"None">>

RECURSIVE LStrip(_)
LStrip(s) == IF s # <<>> /\ Head(s) = " " THEN LStrip(Tail(s)) ELSE s

RECURSIVE RStrip(_)
RStrip(s) ==
    IF s # <<>> /\ s[Len(s)] = " " THEN RStrip(SubSeq(s, 1, Len(s) - 1)) ELSE s

\* str.strip()
Strip(s) == RStrip(LStrip(s))

\* truthiness of a str-or-None value
Truthy(v) == v # NoneStr /\ v # <<>>

FieldNames == {"title", "url", "summary", "source", "published_at", "score", "extra"}

\* the dataclass's field defaults; extra (a dict) is a set of key/value pairs
FieldDefault(f) ==
    CASE f = "score" -> 0
      [] f = "extra" -> {}
      [] OTHER -> <<>>

\* __post_init__: title and summary are stripped, a falsy one becomes ""
PostInit(item) ==
    [item EXCEPT !.title = IF Truthy(@) THEN Strip(@) ELSE <<>>,
                 !.summary = IF Truthy(@) THEN Strip(@) ELSE <<>>]

\* NewsItem(**kw): title and url are required, the rest default
NewsItemOk(kw) == {"title", "url"} \subseteq DOMAIN kw /\ DOMAIN kw \subseteq FieldNames

NewsItem(kw) ==
    PostInit([f \in FieldNames |-> IF f \in DOMAIN kw THEN kw[f] ELSE FieldDefault(f)])

\* faulty variant of ToDict: the summary key carries the title
ToDictSwapped(item) ==
    [title |-> item.title, url |-> item.url, summary |-> item.title,
     source |-> item.source, published_at |-> item.published_at,
     score |-> item.score, extra |-> item.extra]

\* NewsItem.to_dict
ToDict(item) ==
    [title |-> item.title, url |-> item.url, summary |-> item.summary,
     source |-> item.source, published_at |-> item.published_at,
     score |-> item.score, extra |-> item.extra]

(* ---------------------------- state ----------------------------------- *)
VARIABLES
    registry,    \* sources.base._registry
    pc,          \* "idle", the call in flight ("fetch_all", ...), or "done"
    call,        \* the aggregator call in flight (or the last one)
    tasks,       \* the coroutines of the call
    instances,   \* source instances created by the call, in creation order
    fetched,     \* fetch invocations of the call: <<class, limit>>
    log,         \* lines printed by the call
    ret,         \* how the call ended for its caller
    rt,          \* NewsItem round trip (used by SpecRT only)
    wb,          \* one application of a pure step: its input and its output
    aux,         \* source discovery and registry snapshots (SpecReg only)
    run          \* the `run` command of main.py (SpecRun only)

vars == <<registry, pc, call, tasks, instances, fetched, log, ret, rt, wb, aux, run>>

\* what the aggregator never touches
others == <<rt, wb, aux, run>>

aggVars == <<registry, pc, call, tasks, instances, fetched, log, ret>>

NoRT == [pc |-> "off", kw |-> <<>>, x |-> <<>>, d |-> <<>>, y |-> <<>>, err |-> ""]
NoWB == [pc |-> "off"]
NoAux == [pc |-> "off", snap |-> [ref |-> "none", val |-> <<>>]]
NoRun == [pc |-> "off"]

Init ==
    /\ registry = <<>>
    /\ pc = "idle"
    /\ call = NoCall
    /\ tasks = <<>>
    /\ instances = <<>>
    /\ fetched = <<>>
    /\ log = <<>>
    /\ ret = NoRet
    /\ rt = NoRT
    /\ wb = NoWB
    /\ aux = NoAux
    /\ run = NoRun

\* no aggregator call is in flight
CanCall == pc = "idle"

\* @register_source applied to a source class (module import time, or later)
Register(cls) ==
    /\ CanCall
    /\ registry' = RegisterSource(registry, cls)
    /\ UNCHANGED <<pc, call, tasks, instances, fetched, log, ret, others>>

\* the caller of the aggregator takes the result; the call's locals are gone
TakeResult ==
    /\ pc = "done"
    /\ pc' = "idle"
    /\ call' = NoCall
    /\ tasks' = <<>>
    /\ instances' = <<>>
    /\ fetched' = <<>>
    /\ log' = <<>>
    /\ ret' = NoRet
    /\ UNCHANGED <<registry, others>>

\* fetch_all up to the await of gather
FetchAllCall(limit) ==
    /\ CanCall
    /\ call' = [op |-> "fetch_all", limit |-> limit, names |-> <<>>]
    /\ fetched' = <<>>
    /\ LET sources == GetEnabledSources(registry) IN
         IF sources = <<>>
         THEN /\ log' = <<[msg |-> "no_enabled_sources", name |-> ""]>>
              /\ ret' = [kind |-> "return", items |-> <<>>]
              /\ pc' = "done"
              /\ tasks' = <<>>
              /\ instances' = <<>>
         ELSE IF \E i \in 1..Len(sources) : ~ CanConstruct(sources[i])
         THEN \* a cls() of the list comprehension raises, outside any try
              /\ log' = <<>>
              /\ ret' = [kind |-> "raise", items |-> <<>>]
              /\ pc' = "done"
              /\ tasks' = <<>>
              /\ instances' = <<>>
         ELSE /\ instances' = sources
              /\ tasks' = [i \in 1..Len(sources) |->
                             [name |-> NameOf(sources[i]), cls |-> sources[i],
                              st |-> "pending", val |-> <<>>]]
              /\ log' = <<>>
              /\ ret' = NoRet
              /\ pc' = "fetch_all"
    /\ UNCHANGED <<registry, others>>

\* the event loop starts the i-th source.fetch(limit=limit) coroutine; the
\* tasks gather creates are started in the order they were passed
FetchStart(i) ==
    /\ pc = "fetch_all"
    /\ i \in 1..Len(tasks)
    /\ tasks[i].st = "pending"
    /\ \A j \in 1..(i - 1) : tasks[j].st # "pending"
    /\ tasks' = [tasks EXCEPT ![i].st = "running"]
    /\ fetched' = Append(fetched, <<tasks[i].cls, call.limit>>)
    /\ UNCHANGED <<registry, pc, call, instances, log, ret, others>>

\* a running fetch returns its list
FetchReturn(i) ==
    /\ pc \in {"fetch_all", "fetch_source", "fetch_sources"}
    /\ i \in 1..Len(tasks)
    /\ tasks[i].st = "running"
    /\ \E r \in FetchResults(tasks[i].cls, call.limit) :
         tasks' = [tasks EXCEPT ![i].st = "returned", ![i].val = r]
    /\ UNCHANGED <<registry, pc, call, instances, fetched, log, ret, others>>

\* a running fetch raises
FetchRaise(i) ==
    /\ pc \in {"fetch_all", "fetch_source", "fetch_sources"}
    /\ i \in 1..Len(tasks)
    /\ tasks[i].st = "running"
    /\ CanRaise(tasks[i].cls)
    /\ tasks' = [tasks EXCEPT ![i].st = "raised"]
    /\ UNCHANGED <<registry, pc, call, instances, fetched, log, ret, others>>

\* a registry without the classes of the tasks that raised
WithoutRaised(reg, ts) ==
    SelectSeq(reg, LAMBDA c :
        ~ \E i \in 1..Len(ts) : ts[i].st = "raised" /\ ts[i].cls = c)

\* faulty variant of FetchAllMerge: a source that raised is taken out of
\* the registry
FetchAllMergePruning ==
    /\ pc = "fetch_all"
    /\ GatherDone(tasks)
    /\ log' = log \o FailureLog(tasks, instances)
    /\ ret' = [kind |-> "return", items |-> UrlDedup(AllItems(tasks))]
    /\ pc' = "done"
    /\ registry' = WithoutRaised(registry, tasks)
    /\ UNCHANGED <<call, tasks, instances, fetched, others>>

\* fetch_all after gather: merge, log the failures, dedup, return
FetchAllMerge ==
    /\ pc = "fetch_all"
    /\ GatherDone(tasks)
    /\ log' = log \o FailureLog(tasks, instances)
    /\ ret' = [kind |-> "return", items |-> UrlDedup(AllItems(tasks))]
    /\ pc' = "done"
    /\ UNCHANGED <<registry, call, tasks, instances, fetched, others>>

\* a caller awaits fetch_source(source_name, limit)
FetchSourceCall(name, limit) ==
    /\ CanCall
    /\ call' = [op |-> "fetch_source", limit |-> limit, names |-> <<name>>]
    /\ tasks' = <<[name |-> name, cls |-> NoClass, st |-> "pending", val |-> <<>>]>>
    /\ instances' = <<>>
    /\ fetched' = <<>>
    /\ log' = <<>>
    /\ ret' = NoRet
    /\ pc' = "fetch_source"
    /\ UNCHANGED <<registry, others>>

\* the body of fetch_source up to the await of source.fetch (the coroutines
\* of one gather are started in the order they were passed)
FetchSourceStart(i) ==
    /\ pc \in {"fetch_source", "fetch_sources"}
    /\ i \in 1..Len(tasks)
    /\ tasks[i].st = "pending"
    /\ \A j \in 1..(i - 1) : tasks[j].st # "pending"
    /\ LET source_cls == GetSource(registry, tasks[i].name) IN
         IF source_cls = NoClass
         THEN /\ log' = Append(log, [msg |-> "not_found", name |-> tasks[i].name])
              /\ tasks' = [tasks EXCEPT ![i].st = "returned"]
                        /\ UNCHANGED <<instances, fetched>>
         ELSE /\ instances' = Append(instances, source_cls)
              /\ fetched' = Append(fetched, <<source_cls, call.limit>>)
              /\ tasks' = [tasks EXCEPT ![i].st = "running", ![i].cls = source_cls]
              /\ UNCHANGED log
    /\ UNCHANGED <<registry, pc, call, ret, others>>

\* the awaited fetch_source ends: its caller gets the list or the exception
FetchSourceEnd ==
    /\ pc = "fetch_source"
    /\ tasks[1].st \in Finished
    /\ ret' = AwaitOutcome(tasks[1])
    /\ pc' = "done"
    /\ UNCHANGED <<registry, call, tasks, instances, fetched, log, others>>

\* fetch_sources up to the await of gather
FetchSourcesCall(names, limit) ==
    /\ CanCall
    /\ call' = [op |-> "fetch_sources", limit |-> limit, names |-> names]
    /\ tasks' = [i \in 1..Len(names) |->
                   [name |-> names[i], cls |-> NoClass, st |-> "pending", val |-> <<>>]]
    /\ instances' = <<>>
    /\ fetched' = <<>>
    /\ log' = <<>>
    /\ ret' = NoRet
    /\ pc' = "fetch_sources"
    /\ UNCHANGED <<registry, others>>

\* fetch_sources after gather: merge the lists, dedup, return
FetchSourcesMerge ==
    /\ pc = "fetch_sources"
    /\ GatherDone(tasks)
    /\ ret' = [kind |-> "return", items |-> UrlDedupSources(CollectLists(tasks))]
    /\ pc' = "done"
    /\ UNCHANGED <<registry, call, tasks, instances, fetched, log, others>>

Next ==
    \/ \E cls \in Classes : Register(cls)
    \/ \E limit \in 1..MaxLimit : FetchAllCall(limit)
    \/ \E i \in 1..Len(tasks) : FetchStart(i)
    \/ \E i \in 1..Len(tasks) : FetchReturn(i)
    \/ \E i \in 1..Len(tasks) : FetchRaise(i)
    \/ FetchAllMerge
    \/ \E name \in SourceNames, limit \in 1..MaxLimit : FetchSourceCall(name, limit)
    \/ \E i \in 1..Len(tasks) : FetchSourceStart(i)
    \/ FetchSourceEnd
    \/ TakeResult

Spec == Init /\ [][Next]_vars

(* ------------- fetch_sources on the discovered registry --------------- *)
\* the registry once the sources package is imported: _auto_discover_sources
\* imports github_trending, hackernews and rss_feeds in that order
Discovered == <<"GitHubTrendingSource", "HackerNewsSource", "HNRSSSource">>

InitNames ==
    /\ registry = Discovered
    /\ pc = "idle"
    /\ call = NoCall
    /\ tasks = <<>>
    /\ instances = <<>>
    /\ fetched = <<>>
    /\ log = <<>>
    /\ ret = NoRet
    /\ rt = NoRT
    /\ wb = NoWB
    /\ aux = NoAux
    /\ run = NoRun

NextNames ==
    \/ \E names \in SeqsUpTo(SourceNames, MaxNames), limit \in 1..MaxLimit :
         FetchSourcesCall(names, limit)
    \/ \E i \in 1..Len(tasks) : FetchSourceStart(i)
    \/ \E i \in 1..Len(tasks) : FetchReturn(i)
    \/ \E i \in 1..Len(tasks) : FetchRaise(i)
    \/ FetchSourcesMerge
    \/ TakeResult

SpecNames == InitNames /\ [][NextNames]_vars


(* --------------------- NewsItem round trip ---------------------------- *)
\* keyword arguments of a NewsItem construction: title and url always, the
\* defaulted fields given or left out
OptStrs == Strs \cup {NoneStr}

KwArgs ==
    { [f \in ({"title", "url"} \cup opt) |->
         CASE f = "title" -> t
           [] f = "url" -> u
           [] f = "summary" -> s
           [] f = "source" -> <<"a">>
           [] f = "published_at" -> <<"a">>
           [] f = "score" -> 1
           [] f = "extra" -> {<<"id", 1>>}] :
      t \in OptStrs, u \in {<<>>, <<"a">>}, s \in OptStrs,
      opt \in SUBSET {"summary", "source", "published_at", "score", "extra"} }

InitRT ==
    /\ registry = <<>>
    /\ pc = "idle"
    /\ call = NoCall
    /\ tasks = <<>>
    /\ instances = <<>>
    /\ fetched = <<>>
    /\ log = <<>>
    /\ ret = NoRet
    /\ \E kw \in KwArgs : rt = [NoRT EXCEPT !.pc = "args", !.kw = kw]
    /\ wb = NoWB
    /\ aux = NoAux
    /\ run = NoRun

\* x = NewsItem(**kw)
RTConstruct ==
    /\ rt.pc = "args"
    /\ rt' = IF NewsItemOk(rt.kw)
             THEN [rt EXCEPT !.pc = "item", !.x = NewsItem(rt.kw)]
             ELSE [rt EXCEPT !.pc = "error", !.err = "TypeError"]
    /\ UNCHANGED <<aggVars, wb, aux, run>>

\* d = x.to_dict()
RTToDict ==
    /\ rt.pc = "item"
    /\ rt' = [rt EXCEPT !.pc = "dict", !.d = ToDict(rt.x)]
    /\ UNCHANGED <<aggVars, wb, aux, run>>

\* y = NewsItem(**d)
RTFromDict ==
    /\ rt.pc = "dict"
    /\ rt' = IF NewsItemOk(rt.d)
             THEN [rt EXCEPT !.pc = "rebuilt", !.y = NewsItem(rt.d)]
             ELSE [rt EXCEPT !.pc = "error", !.err = "TypeError"]
    /\ UNCHANGED <<aggVars, wb, aux, run>>

NextRT == RTConstruct \/ RTToDict \/ RTFromDict

SpecRT == InitRT /\ [][NextRT]_vars

(* ------------- start-up discovery and the registry API ---------------- *)
\* the source modules of the package, in pkgutil's (sorted) order, and the
\* class each one registers when it loads
Modules == <<"github_trending", "hackernews", "rss_feeds">>

ClassOf(mod) ==
    CASE mod = "github_trending" -> "GitHubTrendingSource"
      [] mod = "hackernews" -> "HackerNewsSource"
      [] mod = "rss_feeds" -> "HNRSSSource"

\* how importing a module ends: it loads, it raises ImportError (a missing
\* dependency), or it raises anything else (SyntaxError, NameError, ...)
LoadOutcomes == {"ok", "ImportError", "Error"}

\* classes handed to register_source after start-up
RegClasses == Classes \cup {"MySource", "MySourceV2", "NotASource"}

\* the mapping the caller's snapshot variable denotes
SnapView == IF aux.snap.ref = "registry" THEN registry ELSE aux.snap.val

InitReg ==
    /\ registry = <<>>
    /\ pc = "idle"
    /\ call = NoCall
    /\ tasks = <<>>
    /\ instances = <<>>
    /\ fetched = <<>>
    /\ log = <<>>
    /\ ret = NoRet
    /\ rt = NoRT
    /\ wb = NoWB
    /\ run = NoRun
    /\ \E loads \in [1..Len(Modules) -> LoadOutcomes] :
         aux = [pc |-> "discover", loads |-> loads, i |-> 1, warnings |-> <<>>,
                n |-> 0, op |-> "none", cls |-> NoClass, err |-> "",
                prev |-> <<>>, snap |-> NoSnap, prevview |-> <<>>]

\* one iteration of _auto_discover_sources: import the next module
DiscoverModule ==
    /\ aux.pc = "discover"
    /\ LET mod == Modules[aux.i]
           outcome == aux.loads[aux.i]
           after == IF aux.i = Len(Modules) THEN "ready" ELSE "discover"
       IN CASE outcome = "ok" ->
                 /\ registry' = RegisterSource(registry, ClassOf(mod))
                 /\ aux' = [aux EXCEPT !.i = @ + 1, !.pc = after]
            [] outcome = "ImportError" ->
                 /\ registry' = registry
                 /\ aux' = [aux EXCEPT !.i = @ + 1, !.pc = after,
                                       !.warnings = Append(@, mod)]
            [] outcome = "Error" ->
                 /\ registry' = registry
                 /\ aux' = [aux EXCEPT !.pc = "crashed", !.err = "Error"]
    /\ UNCHANGED <<pc, call, tasks, instances, fetched, log, ret, rt, wb, run>>

CanCallReg == aux.pc = "ready" /\ aux.n < MaxCalls

\* register_source(cls)
RegisterCall(cls) ==
    /\ CanCallReg
    /\ registry' = IF IsNewsSource(cls) THEN RegisterSource(registry, cls)
                   ELSE registry
    /\ aux' = [aux EXCEPT !.n = @ + 1, !.op = "register", !.cls = cls,
                          !.err = IF IsNewsSource(cls) THEN "" ELSE "TypeError",
                          !.prev = registry, !.prevview = SnapView]
    /\ UNCHANGED <<pc, call, tasks, instances, fetched, log, ret, rt, wb, run>>

\* snapshot = get_all_sources()
GetAllSourcesCall ==
    /\ CanCallReg
    /\ aux' = [aux EXCEPT !.n = @ + 1, !.op = "snapshot", !.cls = NoClass,
                          !.err = "", !.prev = registry, !.prevview = SnapView,
                          !.snap = GetAllSources(registry)]
    /\ UNCHANGED <<aggVars, rt, wb, run>>

\* the caller writes to the mapping it was given: snapshot[cls.name] = cls
\* (pop = FALSE) or del snapshot[first key] (pop = TRUE)
MutateSnapshot(cls, pop) ==
    /\ CanCallReg
    /\ aux.snap.ref # "none"
    /\ LET new == IF pop THEN PopFirst(SnapView) ELSE RegisterSource(SnapView, cls)
       IN /\ registry' = IF aux.snap.ref = "registry" THEN new ELSE registry
          /\ aux' = [aux EXCEPT !.n = @ + 1, !.op = "mutate", !.cls = NoClass,
                                !.err = "", !.prev = registry,
                                !.prevview = SnapView,
                                !.snap = IF aux.snap.ref = "copy"
                                         THEN [ref |-> "copy", val |-> new]
                                         ELSE @]
    /\ UNCHANGED <<pc, call, tasks, instances, fetched, log, ret, rt, wb, run>>

NextReg ==
    \/ DiscoverModule
    \/ \E cls \in RegClasses : RegisterCall(cls)
    \/ GetAllSourcesCall
    \/ \E cls \in {"MySource"}, pop \in BOOLEAN : MutateSnapshot(cls, pop)

SpecReg == InitReg /\ [][NextReg]_vars

(* ------------------------ the `run` command --------------------------- *)
\* registries start-up discovery can leave: each module loaded or skipped
DiscoveryResults ==
    {SelectSeq(Discovered, LAMBDA c : c \in S) : S \in SUBSET Classes}

\* the settings of config.py that `run` validates: TRUE = set
Configs == [AI_API_KEY : BOOLEAN, SMTP_USER : BOOLEAN,
            SMTP_PASSWORD : BOOLEAN, EMAIL_TO : BOOLEAN]

\* config.validate_config()
ValidateConfig(cfg) == IF cfg.AI_API_KEY THEN {} ELSE {"AI_API_KEY"}

\* faulty variant of ValidateEmailConfig: EMAIL_TO is not looked at
ValidateEmailConfigNoTo(cfg) ==
    {k \in {"SMTP_USER", "SMTP_PASSWORD"} : ~ cfg[k]}

\* config.validate_email_config()
ValidateEmailConfig(cfg) ==
    {k \in {"SMTP_USER", "SMTP_PASSWORD", "EMAIL_TO"} : ~ cfg[k]}

\* the command-line options of `run`
Options == [send_email : BOOLEAN, dry_run : BOOLEAN, html_only : BOOLEAN,
            limit : 1..MaxLimit]

InitRun ==
    /\ registry \in DiscoveryResults
    /\ pc = "idle"
    /\ call = NoCall
    /\ tasks = <<>>
    /\ instances = <<>>
    /\ fetched = <<>>
    /\ log = <<>>
    /\ ret = NoRet
    /\ rt = NoRT
    /\ wb = NoWB
    /\ aux = NoAux
    /\ \E cfg \in Configs, opt \in Options :
         run = [pc |-> "start", cfg |-> cfg, opt |-> opt, stages |-> <<>>,
                msgs |-> <<>>, code |-> -1]

\* `run` from its entry to the fetch: both configuration checks
RunValidate ==
    /\ run.pc = "start"
    /\ run' =
         IF ValidateConfig(run.cfg) # {}
         THEN [run EXCEPT !.pc = "exited", !.code = 1,
                          !.msgs = Append(@, "ai_config_missing")]
         ELSE IF run.opt.send_email /\ ~ run.opt.dry_run
                 /\ ValidateEmailConfig(run.cfg) # {}
         THEN [run EXCEPT !.pc = "exited", !.code = 1,
                          !.msgs = Append(@, "email_config_missing")]
         ELSE [run EXCEPT !.pc = "fetch", !.msgs = Append(@, "started")]
    /\ UNCHANGED <<aggVars, rt, wb, aux>>

\* asyncio.run(_fetch()): fetch_all(limit=limit) is called
RunFetch ==
    /\ run.pc = "fetch"
    /\ FetchAllCall(run.opt.limit)

\* faulty variant of RunFetched: an empty list goes on to the analysis
RunFetchedNoStop ==
    /\ run.pc = "fetch"
    /\ pc = "done"
    /\ run' =
         IF ret.kind = "raise"
         THEN [run EXCEPT !.pc = "crashed", !.code = 1]
         ELSE [run EXCEPT !.pc = "analyze", !.msgs = Append(@, "fetched")]
    /\ UNCHANGED <<aggVars, rt, wb, aux>>

\* fetch_all has ended: an exception ends the command, an empty list too
\* (with exit code 0), anything else goes on to the analysis
RunFetched ==
    /\ run.pc = "fetch"
    /\ pc = "done"
    /\ run' =
         IF ret.kind = "raise"
         THEN [run EXCEPT !.pc = "crashed", !.code = 1]
         ELSE IF ret.items = <<>>
         THEN [run EXCEPT !.pc = "exited", !.code = 0,
                          !.msgs = @ \o <<"fetched", "nothing_fetched">>]
         ELSE [run EXCEPT !.pc = "analyze", !.msgs = Append(@, "fetched")]
    /\ UNCHANGED <<aggVars, rt, wb, aux>>

\* AIAnalyzer().analyze(news_items): the API call may raise
RunAnalyze(ok) ==
    /\ run.pc = "analyze"
    /\ run' =
         IF ok
         THEN [run EXCEPT !.pc = "report", !.stages = Append(@, "analyze"),
                          !.msgs = Append(@, "analyzed")]
         ELSE [run EXCEPT !.pc = "crashed", !.stages = Append(@, "analyze"),
                          !.code = 1]
    /\ UNCHANGED <<aggVars, rt, wb, aux>>

\* faulty variant of RunReport: the mail step looks at send_email only
RunReportIgnoreDryRun(ok) ==
    /\ run.pc = "report"
    /\ LET stage == IF run.opt.html_only THEN "generate_html" ELSE "generate"
       IN run' =
            IF ~ ok
            THEN [run EXCEPT !.pc = "crashed", !.stages = Append(@, stage),
                             !.code = 1]
            ELSE IF run.opt.send_email
            THEN [run EXCEPT !.pc = "email", !.stages = Append(@, stage),
                             !.msgs = Append(@, "report_generated")]
            ELSE [run EXCEPT !.pc = "exited", !.stages = Append(@, stage),
                             !.code = 0,
                             !.msgs = @ \o <<"report_generated", "finished">>]
    /\ UNCHANGED <<aggVars, rt, wb, aux>>

\* ReportGenerator(): generate_html or generate; without a mail to send the
\* command ends here
RunReport(ok) ==
    /\ run.pc = "report"
    /\ LET stage == IF run.opt.html_only THEN "generate_html" ELSE "generate"
       IN run' =
            IF ~ ok
            THEN [run EXCEPT !.pc = "crashed", !.stages = Append(@, stage),
                             !.code = 1]
            ELSE IF run.opt.send_email /\ ~ run.opt.dry_run
            THEN [run EXCEPT !.pc = "email", !.stages = Append(@, stage),
                             !.msgs = Append(@, "report_generated")]
            ELSE [run EXCEPT !.pc = "exited", !.stages = Append(@, stage),
                             !.code = 0,
                             !.msgs = @ \o <<"report_generated", "finished">>]
    /\ UNCHANGED <<aggVars, rt, wb, aux>>

\* EmailSender().send_report(...): success or not, the command ends normally
RunEmail(success) ==
    /\ run.pc = "email"
    /\ run' = [run EXCEPT !.pc = "exited", !.stages = Append(@, "send_report"),
                          !.code = 0,
                          !.msgs = @ \o <<IF success THEN "email_sent"
                                          ELSE "email_failed", "finished">>]
    /\ UNCHANGED <<aggVars, rt, wb, aux>>

NextRun ==
    \/ RunValidate
    \/ RunFetch
    \/ \E i \in 1..Len(tasks) : FetchStart(i)
    \/ \E i \in 1..Len(tasks) : FetchReturn(i)
    \/ \E i \in 1..Len(tasks) : FetchRaise(i)
    \/ FetchAllMerge
    \/ RunFetched
    \/ \E ok \in BOOLEAN : RunAnalyze(ok)
    \/ \E ok \in BOOLEAN : RunReport(ok)
    \/ \E success \in BOOLEAN : RunEmail(success)

SpecRun == InitRun /\ [][NextRun]_vars

(* ------------- fetch_all with a user-registered source ---------------- *)
\* after start-up a NewsSource subclass without fetch is registered
InitPlugin == InitNames

NextPlugin ==
    \/ \E cls \in {"DraftSource"} : Register(cls)
    \/ \E limit \in 1..MaxLimit : FetchAllCall(limit)
    \/ \E i \in 1..Len(tasks) : FetchStart(i)
    \/ \E i \in 1..Len(tasks) : FetchReturn(i)
    \/ \E i \in 1..Len(tasks) : FetchRaise(i)
    \/ FetchAllMerge
    \/ TakeResult

SpecPlugin == InitPlugin /\ [][NextPlugin]_vars

(* --------------------- one fetch of one source ------------------------ *)
InitFetch ==
    /\ registry = <<>>
    /\ pc = "idle"
    /\ call = NoCall
    /\ tasks = <<>>
    /\ instances = <<>>
    /\ fetched = <<>>
    /\ log = <<>>
    /\ ret = NoRet
    /\ rt = NoRT
    /\ aux = NoAux
    /\ run = NoRun
    /\ \E cls \in Classes, limit \in 1..MaxLimit :
         \E up \in Upstreams(cls) :
            wb = [pc |-> "in", cls |-> cls, limit |-> limit, up |-> up,
                  out |-> <<>>]

\* source.fetch(limit) returns
SourceFetchReturn ==
    /\ wb.pc = "in"
    /\ ~ SourceFetchRaises(wb.cls, wb.up)
    /\ wb' = [wb EXCEPT !.pc = "returned",
                         !.out = SourceFetch(wb.cls, wb.up, wb.limit)]
    /\ UNCHANGED <<aggVars, rt, aux, run>>

\* source.fetch(limit) raises
SourceFetchRaise ==
    /\ wb.pc = "in"
    /\ SourceFetchRaises(wb.cls, wb.up)
    /\ wb' = [wb EXCEPT !.pc = "raised"]
    /\ UNCHANGED <<aggVars, rt, aux, run>>

NextFetch == SourceFetchReturn \/ SourceFetchRaise

SpecFetch == InitFetch /\ [][NextFetch]_vars

(* ------------------ one Hacker News story record --------------------- *)
\* dict.get(k, default): the default only replaces a missing key, a key
\* that is present with a null value gives None
Get(data, k, default) == IF k \in DOMAIN data THEN data[k] ELSE default

\* the item JSON of one story id: "type" always there, the other keys
\* present or not, title and url possibly null
StoryRecords ==
    { [k \in ({"type"} \cup ks) |->
         CASE k = "type" -> ty
           [] k = "title" -> t
           [] k = "url" -> u
           [] k = "score" -> 1] :
      ks \in SUBSET {"title", "url", "score"}, ty \in {"story", "comment"},
      t \in OptStrs, u \in {NoneStr, <<"a">>} }

\* the fallback link of a story without url key
HNItemUrl == <<"a", "a">>

\* the keyword arguments _fetch_story hands to NewsItem
StoryKw(data) ==
    [title |-> Get(data, "title", <<>>),
     url |-> Get(data, "url", HNItemUrl),
     summary |-> <<"a">>,
     source |-> <<"a">>,
     published_at |-> <<>>,
     score |-> Get(data, "score", 0),
     extra |-> {"id", "by", "comments", "hn_url"}]

InitStory ==
    /\ registry = <<>>
    /\ pc = "idle"
    /\ call = NoCall
    /\ tasks = <<>>
    /\ instances = <<>>
    /\ fetched = <<>>
    /\ log = <<>>
    /\ ret = NoRet
    /\ rt = NoRT
    /\ aux = NoAux
    /\ run = NoRun
    /\ \E data \in StoryRecords : wb = [pc |-> "in", data |-> data, item |-> <<>>]

\* _fetch_story returns None: the record is not a story
FetchStoryNone ==
    /\ wb.pc = "in"
    /\ wb.data["type"] # "story"
    /\ wb' = [wb EXCEPT !.pc = "none"]
    /\ UNCHANGED <<aggVars, rt, aux, run>>

\* _fetch_story returns the NewsItem built from the record
FetchStoryItem ==
    /\ wb.pc = "in"
    /\ wb.data["type"] = "story"
    /\ wb' = [wb EXCEPT !.pc = "item", !.item = NewsItem(StoryKw(wb.data))]
    /\ UNCHANGED <<aggVars, rt, aux, run>>

NextStory == FetchStoryNone \/ FetchStoryItem

SpecStory == InitStory /\ [][NextStory]_vars

(* -------- every fetch operation on the discovered registry ----------- *)
\* after start-up only the three fetch operations of NewsFetcher are called
InitFrame == InitNames

NextFrame ==
    \/ \E limit \in 1..MaxLimit : FetchAllCall(limit)
    \/ \E i \in 1..Len(tasks) : FetchStart(i)
    \/ \E i \in 1..Len(tasks) : FetchReturn(i)
    \/ \E i \in 1..Len(tasks) : FetchRaise(i)
    \/ FetchAllMerge
    \/ \E name \in SourceNames, limit \in 1..MaxLimit : FetchSourceCall(name, limit)
    \/ \E i \in 1..Len(tasks) : FetchSourceStart(i)
    \/ FetchSourceEnd
    \/ \E names \in SeqsUpTo(SourceNames, MaxNames), limit \in 1..MaxLimit :
         FetchSourcesCall(names, limit)
    \/ FetchSourcesMerge
    \/ TakeResult

SpecFrame == InitFrame /\ [][NextFrame]_vars

(* ---------------- two fetch_all calls on one event loop --------------- *)
\* Two coroutines of one event loop each await fetch_all once; register_source
\* may run at any time. Lines 49-60 of fetch_all are followed here: which
\* instances a call creates and which fetch invocations it makes. The lists
\* the fetches return, and their merge, are followed in Spec.
Callers == {"a", "b"}

IdleCall == [st |-> "idle", limit |-> 0, reg |-> <<>>, insts |-> <<>>,
             tasks |-> <<>>, fetched |-> <<>>]

\* faulty variant of NewInstances: one instance per position is kept and
\* handed to every call
NewInstancesShared(sources, next) ==
    [i \in 1..Len(sources) |-> [cls |-> sources[i], id |-> i]]

\* [cls() for cls in sources.values()]: every cls() is a new object; `next`
\* is the number of the next object the interpreter creates
NewInstances(sources, next) ==
    [i \in 1..Len(sources) |-> [cls |-> sources[i], id |-> next + i - 1]]

InitTwo ==
    /\ registry \in DiscoveryResults
    /\ pc = "idle"
    /\ call = NoCall
    /\ tasks = <<>>
    /\ instances = <<>>
    /\ fetched = <<>>
    /\ log = <<>>
    /\ ret = NoRet
    /\ rt = NoRT
    /\ wb = NoWB
    /\ run = NoRun
    /\ aux = [pc |-> "calls", snap |-> NoSnap, next |-> 1,
              calls |-> [c \in Callers |-> IdleCall]]

\* caller c enters fetch_all(limit) and runs to the await of gather; with
\* no enabled source the call returns at once
TwoCall(c, limit) ==
    /\ aux.pc = "calls"
    /\ aux.calls[c].st = "idle"
    /\ LET sources == GetEnabledSources(registry)
           insts == NewInstances(sources, aux.next)
       IN aux' = [aux EXCEPT
                    !.next = @ + Len(sources),
                    !.calls[c] =
                       [st |-> IF sources = <<>> THEN "done" ELSE "gather",
                        limit |-> limit,
                        reg |-> registry,
                        insts |-> insts,
                        tasks |-> [i \in 1..Len(sources) |-> "pending"],
                        fetched |-> <<>>]]
    /\ UNCHANGED <<aggVars, rt, wb, run>>

\* the loop starts the i-th fetch coroutine of caller c's gather
TwoStart(c, i) ==
    /\ aux.pc = "calls"
    /\ aux.calls[c].st = "gather"
    /\ i \in 1..Len(aux.calls[c].tasks)
    /\ aux.calls[c].tasks[i] = "pending"
    /\ \A j \in 1..(i - 1) : aux.calls[c].tasks[j] # "pending"
    /\ aux' = [aux EXCEPT
                 !.calls[c].tasks[i] = "running",
                 !.calls[c].fetched =
                     Append(@, [id |-> aux.calls[c].insts[i].id,
                                limit |-> aux.calls[c].limit])]
    /\ UNCHANGED <<aggVars, rt, wb, run>>

\* a running fetch of caller c returns (ok) or raises
TwoEnd(c, i, ok) ==
    /\ aux.pc = "calls"
    /\ aux.calls[c].st = "gather"
    /\ i \in 1..Len(aux.calls[c].tasks)
    /\ aux.calls[c].tasks[i] = "running"
    /\ ok \/ CanRaise(aux.calls[c].insts[i].cls)
    /\ aux' = [aux EXCEPT
                 !.calls[c].tasks[i] = IF ok THEN "returned" ELSE "raised"]
    /\ UNCHANGED <<aggVars, rt, wb, run>>

\* gather of caller c is complete: fetch_all goes on to its merge
TwoDone(c) ==
    /\ aux.pc = "calls"
    /\ aux.calls[c].st = "gather"
    /\ \A i \in 1..Len(aux.calls[c].tasks) :
          aux.calls[c].tasks[i] \in Finished
    /\ aux' = [aux EXCEPT !.calls[c].st = "done"]
    /\ UNCHANGED <<aggVars, rt, wb, run>>

NextTwo ==
    \/ \E cls \in Classes : Register(cls)
    \/ \E c \in Callers, limit \in 1..MaxLimit : TwoCall(c, limit)
    \/ \E c \in Callers : \E i \in 1..Len(aux.calls[c].tasks) : TwoStart(c, i)
    \/ \E c \in Callers : \E i \in 1..Len(aux.calls[c].tasks), ok \in BOOLEAN :
          TwoEnd(c, i, ok)
    \/ \E c \in Callers : TwoDone(c)

SpecTwo == InitTwo /\ [][NextTwo]_vars

(* ------------------ AIAnalyzer._parse_response ----------------------- *)
\* A JSON value as far as _parse_response looks at it: its kind and, for a
\* list or a string, the kinds of its elements ("dict" or "str"; the
\* characters of a string are strings).
JMissing == [k |-> "missing", v |-> <<>>]
JNull == [k |-> "null", v |-> <<>>]
JNum == [k |-> "num", v |-> <<>>]
JStrs == {[k |-> "str", v |-> v] : v \in SeqsUpTo({"str"}, 1)}
JLists == {[k |-> "list", v |-> v] : v \in SeqsUpTo({"dict", "str"}, MaxItems)}

\* what the text between the fences (or the whole text) is for json.loads:
\* not JSON, a JSON value that is no object, or an object whose keys
\* summary, trends and project_suggestions are missing or hold some value
Payloads ==
    [k : {"bad", "null", "num", "str", "list"}, summary : {JMissing},
     trends : {JMissing}, project_suggestions : {JMissing}]
    \cup
    [k : {"obj"}, summary : {JMissing, [k |-> "str", v |-> <<"str">>]},
     trends : {JMissing, [k |-> "list", v |-> <<"str">>],
               [k |-> "str", v |-> <<"str">>]},
     project_suggestions : {JMissing, JNull, JNum} \cup JStrs \cup JLists]

\* a response text: bare, or with the payload inside a ```json or ``` fence
Responses == [fence : {"none", "json", "plain"}, payload : Payloads]

\* the text handed to json.loads
JsonStr(response) == response.payload

\* data.get(key, default)
DataGet(data, key, default) == IF data[key] = JMissing THEN default ELSE data[key]

JEmptyList == [k |-> "list", v |-> <<>>]
JEmptyStr == [k |-> "str", v |-> <<>>]

\* the exception the try block ends with, "" when it ends normally:
\* json.loads on a text that is not JSON, .get on a value that is no dict
\* (data itself, or an element of project_suggestions), iteration over a
\* value that is not iterable
ParseError(response) ==
    LET data == JsonStr(response)
        ps == DataGet(data, "project_suggestions", JEmptyList)
    IN IF data.k = "bad" THEN "JSONDecodeError"
       ELSE IF data.k # "obj" THEN "AttributeError"
       ELSE IF ps.k \in {"null", "num"} THEN "TypeError"
       ELSE IF \E i \in 1..Len(ps.v) : ps.v[i] # "dict" THEN "AttributeError"
       ELSE ""

\* the except clause of _parse_response
Caught == {"JSONDecodeError", "KeyError", "TypeError"}

\* the AnalysisResult of the try block
ParsedResult(response) ==
    LET data == JsonStr(response)
        ps == DataGet(data, "project_suggestions", JEmptyList)
    IN [summary |-> DataGet(data, "summary", JEmptyStr),
        trends |-> DataGet(data, "trends", JEmptyList),
        opportunities |-> JEmptyList,
        project_suggestions |-> ps.v,
        raw_response |-> response]

\* the AnalysisResult of the except block
FallbackResult(response) ==
    [summary |-> [k |-> "str", v |-> <<"str">>],
     trends |-> JEmptyList,
     opportunities |-> JEmptyList,
     project_suggestions |-> <<>>,
     raw_response |-> response]

InitParse ==
    /\ registry = <<>>
    /\ pc = "idle"
    /\ call = NoCall
    /\ tasks = <<>>
    /\ instances = <<>>
    /\ fetched = <<>>
    /\ log = <<>>
    /\ ret = NoRet
    /\ rt = NoRT
    /\ aux = NoAux
    /\ run = NoRun
    /\ \E response \in Responses :
         wb = [pc |-> "in", response |-> response, err |-> "",
               result |-> FallbackResult(response)]

\* _parse_response returns: from the try block or from the except block
ParseReturn ==
    /\ wb.pc = "in"
    /\ ParseError(wb.response) \in Caught \cup {""}
    /\ wb' = [wb EXCEPT !.pc = "returned",
                         !.result = IF ParseError(wb.response) = ""
                                    THEN ParsedResult(wb.response)
                                    ELSE FallbackResult(wb.response)]
    /\ UNCHANGED <<aggVars, rt, aux, run>>

\* _parse_response raises: the exception is not one the except clause names
ParseRaise ==
    /\ wb.pc = "in"
    /\ ParseError(wb.response) \notin Caught \cup {""}
    /\ wb' = [wb EXCEPT !.pc = "raised", !.err = ParseError(wb.response)]
    /\ UNCHANGED <<aggVars, rt, aux, run>>

NextParse == ParseReturn \/ ParseRaise

SpecParse == InitParse /\ [][NextParse]_vars

(* ------------------- the dedup step on its own ------------------------ *)
\* item lists of any make-up: urls repeat, are empty, come from two sources
ItemLists ==
    { [i \in 1..Len(us) |-> [title |-> i, url |-> us[i],
                              source |-> IF i = 1 THEN "GitHubTrending" ELSE "HackerNews"]] :
      us \in SeqsUpTo(Urls, MaxItems) }

InitDedup ==
    /\ registry = <<>>
    /\ pc = "idle"
    /\ call = NoCall
    /\ tasks = <<>>
    /\ instances = <<>>
    /\ fetched = <<>>
    /\ log = <<>>
    /\ ret = NoRet
    /\ rt = NoRT
    /\ aux = NoAux
    /\ run = NoRun
    /\ \E l \in ItemLists : wb = [pc |-> "in", input |-> l, once |-> <<>>, twice |-> <<>>]

\* unique_items of the dedup loop run on all_items = input
DedupOnce ==
    /\ wb.pc = "in"
    /\ wb' = [wb EXCEPT !.pc = "once", !.once = UrlDedup(wb.input)]
    /\ UNCHANGED <<aggVars, rt, aux, run>>

\* the loop run again on its own output
DedupTwice ==
    /\ wb.pc = "once"
    /\ wb' = [wb EXCEPT !.pc = "twice", !.twice = UrlDedup(wb.once)]
    /\ UNCHANGED <<aggVars, rt, aux, run>>

NextDedup == DedupOnce \/ DedupTwice

SpecDedup == InitDedup /\ [][NextDedup]_vars

(* ===================== properties of the aggregator =================== *)
HasUrl(item) == item.url # ""

CountEmpty(items) == Cardinality({i \in 1..Len(items) : items[i].url = ""})

\* what the i-th task handed to the merge: its list, or nothing
ResultOf(i) == IF tasks[i].st = "returned" THEN tasks[i].val ELSE <<>>

\* concatenation of the first n tasks' lists
RECURSIVE ConcatUpTo(_)
ConcatUpTo(n) == IF n = 0 THEN <<>> ELSE ConcatUpTo(n - 1) \o ResultOf(n)

\* what the source class cls contributed to a fetch_all: the list its fetch
\* returned, nothing when it is disabled or failed
ContributionOf(cls) ==
    IF Enabled(cls) /\ \E i \in 1..Len(tasks) : tasks[i].cls = cls /\ tasks[i].st = "returned"
    THEN tasks[CHOOSE i \in 1..Len(tasks) : tasks[i].cls = cls].val
    ELSE <<>>

\* concatenation in registry-iteration order
RECURSIVE RegistryConcat(_)
RegistryConcat(n) ==
    IF n = 0 THEN <<>> ELSE RegistryConcat(n - 1) \o ContributionOf(registry[n])

\* the first occurrence of each distinct non-empty url among s[1..n]
RECURSIVE FirstOccUpTo(_, _)
FirstOccUpTo(s, n) ==
    IF n = 0 THEN <<>>
    ELSE IF s[n].url # "" /\ \A j \in 1..(n - 1) : s[j].url # s[n].url
         THEN Append(FirstOccUpTo(s, n - 1), s[n])
         ELSE FirstOccUpTo(s, n - 1)

FirstOccurrences(s) == FirstOccUpTo(s, Len(s))

FetchAllDone == pc = "done" /\ call.op = "fetch_all"
FetchSourceDone == pc = "done" /\ call.op = "fetch_source"
FetchSourcesDone == pc = "done" /\ call.op = "fetch_sources"

Registered(name) == \E i \in 1..Len(registry) : NameOf(registry[i]) = name

\* C1: when fetch_all or fetch_sources has returned, its result holds as many
\* empty-url items as the concatenation of the gathered lists did.
C1_EmptyUrlKept ==
    (pc = "done" /\ call.op \in {"fetch_all", "fetch_sources"} /\ ret.kind = "return")
        => CountEmpty(ret.items) = CountEmpty(ConcatUpTo(Len(tasks)))

\* C2: the non-empty-url part of fetch_all's result is the subsequence of
\* first occurrences of each distinct url in the registry-order concatenation,
\* and no two items of it share a url.
C2_FirstOccurrence ==
    FetchAllDone =>
        LET out == SelectSeq(ret.items, HasUrl) IN
        /\ out = FirstOccurrences(RegistryConcat(Len(registry)))
        /\ \A i, j \in 1..Len(out) : out[i].url = out[j].url => i = j

\* C2 witness: two sources returned an item with the same url and fetch_all
\* returned at least two items
C2_Witness ==
    /\ FetchAllDone
    /\ Len(ret.items) >= 2
    /\ \E i, j \in 1..Len(tasks) :
         /\ i < j
         /\ \E a \in 1..Len(tasks[i].val), b \in 1..Len(tasks[j].val) :
              tasks[i].val[a].url = tasks[j].val[b].url /\ tasks[i].val[a].url # ""

\* C3: fetch_all always ends by returning, never by raising; it returns the
\* dedup of the lists of the sources that did not fail, and the empty
\* sequence when every enabled source failed.
C3_FailureIsolation ==
    /\ call.op = "fetch_all" => ret.kind # "raise"
    /\ FetchAllDone =>
         /\ ret.kind = "return"
         /\ ret.items = UrlDedup(RegistryConcat(Len(registry)))
         /\ (\A i \in 1..Len(tasks) : tasks[i].st = "raised") => ret.items = <<>>

\* C3 witness: one source raised, another returned items, and those items
\* were returned by fetch_all
C3_Witness ==
    /\ FetchAllDone
    /\ \E i \in 1..Len(tasks) : tasks[i].st = "raised"
    /\ \E j \in 1..Len(tasks) : tasks[j].st = "returned" /\ tasks[j].val # <<>>
    /\ ret.items # <<>>

\* C4: during and after fetch_all no disabled source is instantiated or
\* fetched, and no returned item carries a registered, disabled source's name.
C4_EnabledFiltering ==
    call.op = "fetch_all" =>
        /\ \A i \in 1..Len(instances) : Enabled(instances[i])
        /\ \A i \in 1..Len(fetched) : Enabled(fetched[i][1])
        /\ \A i \in 1..Len(tasks) : Enabled(tasks[i].cls)
        /\ \A k \in 1..Len(ret.items) :
             ~ \E i \in 1..Len(registry) :
                 ~ Enabled(registry[i]) /\ NameOf(registry[i]) = ret.items[k].source

\* C4 witness: a disabled source is registered and fetch_all returned items
C4_Witness ==
    /\ FetchAllDone
    /\ \E i \in 1..Len(registry) : ~ Enabled(registry[i])
    /\ ret.items # <<>>

\* C5: fetch_source of a registered name whose fetch returned gives its caller
\* exactly that list, having invoked fetch(limit) once on the class registered
\* under that name, enabled or not.
C5_ExplicitOverride ==
    (FetchSourceDone /\ Registered(call.names[1]) /\ tasks[1].st # "raised") =>
        \E i \in 1..Len(registry) :
            /\ NameOf(registry[i]) = call.names[1]
            /\ tasks[1].cls = registry[i]
            /\ fetched = << <<registry[i], call.limit>> >>
            /\ tasks[1].val \in FetchResults(registry[i], call.limit)
            /\ ret = [kind |-> "return", items |-> tasks[1].val]

\* C5 witness: fetch_source of the disabled source returned items
C5_Witness ==
    /\ FetchSourceDone
    /\ \E i \in 1..Len(registry) :
         ~ Enabled(registry[i]) /\ NameOf(registry[i]) = call.names[1]
    /\ ret.kind = "return"
    /\ ret.items # <<>>

\* C6: fetch_source of a name absent from the registry never raises, invokes
\* no fetch, and ends returning the empty sequence with a not-found report.
C6_UnknownSource ==
    (call.op = "fetch_source" /\ ~ Registered(call.names[1])) =>
        /\ fetched = <<>>
        /\ instances = <<>>
        /\ ret.kind # "raise"
        /\ tasks[1].st \in Finished =>
             log = <<[msg |-> "not_found", name |-> call.names[1]]>>
        /\ pc = "done" =>
             /\ ret = [kind |-> "return", items |-> <<>>]
             /\ log = <<[msg |-> "not_found", name |-> call.names[1]]>>

\* C6 witness: fetch_source of an unknown name has ended while other sources
\* are registered
C6_Witness ==
    /\ FetchSourceDone
    /\ registry # <<>>
    /\ ~ Registered(call.names[1])

\* C7: when fetch_source was given a registered name and that source's fetch
\* raised, the caller of fetch_source gets an empty list, not an exception.
C7_NoPropagation ==
    (FetchSourceDone /\ Registered(call.names[1]) /\ tasks[1].st = "raised") =>
        ret = [kind |-> "return", items |-> <<>>]

\* what fetch_source would hand back for the i-th name, as far as
\* fetch_sources is concerned: nothing for an unknown name or a failed fetch
WouldReturn(i) ==
    IF ~ Registered(call.names[i]) THEN <<>>
    ELSE IF tasks[i].st = "raised" THEN <<>>
    ELSE tasks[i].val

RECURSIVE NamesConcat(_)
NamesConcat(n) == IF n = 0 THEN <<>> ELSE NamesConcat(n - 1) \o WouldReturn(n)

\* C8: fetch_sources always ends by returning, and returns fetch_all's URL
\* dedup of the concatenation, in the order of names, of what fetch_source
\* gives for each name (nothing for unknown names and failed fetches).
C8_FetchSources ==
    /\ call.op = "fetch_sources" => ret.kind # "raise"
    /\ FetchSourcesDone =>
         /\ ret.kind = "return"
         /\ ret.items = UrlDedup(NamesConcat(Len(call.names)))

\* C8 witness: two names whose fetches returned items sharing a url
C8_Witness ==
    /\ FetchSourcesDone
    /\ Len(call.names) = 2
    /\ call.names[1] # call.names[2]
    /\ tasks[1].val # <<>>
    /\ \E b \in 1..Len(tasks[2].val) :
         tasks[2].val[b].url = tasks[1].val[1].url /\ tasks[2].val[b].url # ""

\* C9: fetch_all has merged and returned only when every enabled source has a
\* fetch that returned or raised; nothing is left pending or running.
C9_JoinBarrier ==
    FetchAllDone =>
        /\ \A i \in 1..Len(tasks) : tasks[i].st \in Finished
        /\ Len(fetched) = Len(tasks)
        /\ \A k \in 1..Len(registry) :
             Enabled(registry[k]) =>
                 \E i \in 1..Len(tasks) :
                     tasks[i].cls = registry[k] /\ tasks[i].st \in Finished

\* C9 witness: fetch_all has returned after the fetch of the first enabled
\* source raised and the fetch of the second ran on to return two items
C9_Witness ==
    /\ FetchAllDone
    /\ Len(tasks) = 2
    /\ tasks[1].st = "raised"
    /\ tasks[2].st = "returned"
    /\ Len(tasks[2].val) = 2

(* ====================== properties of NewsItem ======================== *)
\* C10: to_dict emits exactly the seven keys, the reconstruction from it never
\* fails, and the reconstructed item equals the original on every field.
C10_RoundTrip ==
    /\ rt.pc # "error"
    /\ rt.pc \in {"dict", "rebuilt"} => DOMAIN rt.d = FieldNames
    /\ rt.pc = "rebuilt" => \A f \in FieldNames : rt.y[f] = rt.x[f]

\* C10 witness: an item built from a padded title and a summary, with score
\* and extra set, has been rebuilt from its dict
C10_Witness ==
    /\ rt.pc = "rebuilt"
    /\ rt.kw.title = <<" ", "a">>
    /\ rt.x.title = <<"a">>
    /\ rt.x.score = 1
    /\ rt.x.extra # {}
    /\ rt.x.summary # <<>>

(* ================== properties of the dedup step ====================== *)
\* C11: running the URL-dedup step on its own output gives that output back.
C11_DedupIdempotent ==
    wb.pc = "twice" => wb.twice = wb.once

\* C11 witness: the first run removed a repeated url and kept two items, and
\* the second run has been made
C11_Witness ==
    /\ wb.pc = "twice"
    /\ Len(wb.once) = 2
    /\ \E i, j \in 1..Len(wb.input) :
         i < j /\ wb.input[i].url = wb.input[j].url /\ wb.input[i].url # ""

(* ================= properties of the shipped sources ================== *)
\* C12: a fetch that returns gives at most `limit` items, and with a good
\* response whose upstream list is longer than `limit` it does return (no
\* error), giving items of the first `limit` entries only.
C12_LimitRespected ==
    /\ wb.pc = "returned" => Len(wb.out) <= wb.limit
    /\ (wb.pc # "in" /\ wb.up.net = "ok" /\ Len(wb.up.entries) > wb.limit) =>
         /\ wb.pc = "returned"
         /\ Len(wb.out) =
              Cardinality({i \in 1..wb.limit : wb.up.entries[i].ok})

\* C12 witness: a fetch with more usable upstream entries than `limit` has
\* returned exactly `limit` items
C12_Witness ==
    /\ wb.pc = "returned"
    /\ Len(wb.up.entries) > wb.limit
    /\ \A i \in 1..Len(wb.up.entries) : wb.up.entries[i].ok
    /\ Len(wb.out) = wb.limit

\* C13: every NewsItem a source builds from an upstream record has its
\* seven fields, none of them null, and a trimmed title and summary.
C13_ItemFieldsNonNull ==
    wb.pc = "item" =>
        /\ DOMAIN wb.item = FieldNames
        /\ \A f \in {"title", "url", "summary", "source", "published_at"} :
              wb.item[f] # NoneStr
        /\ wb.item.score \in Nat
        /\ wb.item.title = Strip(wb.item.title)
        /\ wb.item.summary = Strip(wb.item.summary)

(* ===================== properties of the registry ===================== *)
\* names held by a registry
NamesIn(reg) == {NameOf(reg[i]) : i \in 1..Len(reg)}

\* C14: the registry holds one entry per name; after register_source(cls)
\* of a NewsSource class no error was raised (name taken or not),
\* get_source(cls.name) is cls, every other name maps as before, and
\* registering the class a name already maps to changes nothing.
C14_LastWriterWins ==
    /\ \A i, j \in 1..Len(registry) :
          NameOf(registry[i]) = NameOf(registry[j]) => i = j
    /\ (aux.pc = "ready" /\ aux.op = "register" /\ IsNewsSource(aux.cls)) =>
          /\ aux.err = ""
          /\ GetSource(registry, NameOf(aux.cls)) = aux.cls
          /\ NamesIn(registry) = NamesIn(aux.prev) \cup {NameOf(aux.cls)}
          /\ \A n \in NamesIn(aux.prev) \ {NameOf(aux.cls)} :
                GetSource(registry, n) = GetSource(aux.prev, n)
          /\ GetSource(aux.prev, NameOf(aux.cls)) = aux.cls => registry = aux.prev

\* C14 witness: MySourceV2 was registered under the name MySource already
\* held, and replaced it
C14_Witness ==
    /\ aux.pc = "ready"
    /\ aux.op = "register"
    /\ aux.cls = "MySourceV2"
    /\ GetSource(aux.prev, "MySource") = "MySource"
    /\ GetSource(registry, "MySource") = "MySourceV2"
    /\ aux.err = ""

\* C15: a write to the mapping get_all_sources returned leaves the registry
\* as it was, and a register_source call made after the snapshot was taken
\* leaves the snapshot as it was.
C15_Snapshot ==
    /\ (aux.pc = "ready" /\ aux.op = "mutate") => registry = aux.prev
    /\ (aux.pc = "ready" /\ aux.op = "register" /\ aux.snap.ref # "none") =>
          SnapView = aux.prevview

\* C15 witness: with a snapshot held, register_source changed the registry
\* and the snapshot differs from it
C15_Witness ==
    /\ aux.pc = "ready"
    /\ aux.op = "register"
    /\ aux.snap.ref # "none"
    /\ registry # aux.prev
    /\ SnapView # registry

\* C16: when discovery has ended, every module that loads is registered
\* and every module that fails to load has a logged warning.
C16_LoadIsolation ==
    aux.pc \in {"ready", "crashed"} =>
        \A m \in 1..Len(Modules) :
            /\ aux.loads[m] = "ok" => HasName(registry, NameOf(ClassOf(Modules[m])))
            /\ aux.loads[m] # "ok" =>
                  \E w \in 1..Len(aux.warnings) : aux.warnings[w] = Modules[m]

(* ==================== properties of the run command =================== *)
\* the run has left the configuration checks
RunStarted == run.pc # "start"

\* C17: with the AI key missing, or with a mail to send and one of the
\* three mail settings missing, `run` exits with code 1 and no source was
\* instantiated or fetched; every other run that ends by exiting, the one
\* that fetched nothing included, exits with code 0.
C17_ExitCode ==
    LET cfg == run.cfg
        opt == run.opt
        missing == \/ ~ cfg.AI_API_KEY
                   \/ /\ opt.send_email
                      /\ ~ opt.dry_run
                      /\ ~ (cfg.SMTP_USER /\ cfg.SMTP_PASSWORD /\ cfg.EMAIL_TO)
    IN RunStarted =>
         /\ missing => /\ run.pc = "exited"
                       /\ run.code = 1
                       /\ pc = "idle"
                       /\ call = NoCall
                       /\ instances = <<>>
                       /\ fetched = <<>>
         /\ (~ missing /\ run.pc = "exited") => run.code = 0

\* C17 witness: the AI key is set, a mail is to be sent, only EMAIL_TO is
\* missing, and the run has exited with code 1
C17_Witness ==
    /\ run.pc = "exited"
    /\ run.code = 1
    /\ run.cfg.AI_API_KEY /\ run.cfg.SMTP_USER /\ run.cfg.SMTP_PASSWORD
    /\ ~ run.cfg.EMAIL_TO
    /\ run.opt.send_email /\ ~ run.opt.dry_run

\* C18: once fetch_all has returned the empty sequence to `run`, the
\* "nothing fetched" message is shown, the run has exited, and neither the
\* analysis nor a report generation nor the mail sending was invoked.
C18_ZeroItemsStop ==
    (RunStarted /\ pc = "done" /\ ret.kind = "return" /\ ret.items = <<>>) =>
        /\ run.stages = <<>>
        /\ run.pc \in {"fetch", "exited"}
        /\ run.pc = "exited" =>
              \E m \in 1..Len(run.msgs) : run.msgs[m] = "nothing_fetched"

\* C18 witness: two sources were fetched, no item came back, and the run
\* has exited after the message
C18_Witness ==
    /\ run.pc = "exited"
    /\ pc = "done"
    /\ Len(fetched) = 2
    /\ ret.items = <<>>
    /\ run.msgs[Len(run.msgs)] = "nothing_fetched"

(* ======== properties of fetch_all: construction and failure log ======= *)
\* C19: fetch_all ends by returning, also when an enabled registered class
\* cannot be instantiated.
C19_ConstructionIsolated ==
    FetchAllDone => ret.kind = "return"

\* the fetch_failed lines of the log that name `name`
FailuresOf(name) ==
    {k \in 1..Len(log) : log[k].msg = "fetch_failed" /\ log[k].name = name}

\* C20: when fetch_all has returned, the log holds one failure line per
\* source whose fetch raised, naming it, and none for any other name.
C20_FailureRecords ==
    FetchAllDone =>
        /\ \A i \in 1..Len(tasks) :
              Cardinality(FailuresOf(tasks[i].name)) =
                  IF tasks[i].st = "raised" THEN 1 ELSE 0
        /\ \A k \in 1..Len(log) :
              log[k].msg = "fetch_failed" =>
                  \E i \in 1..Len(tasks) : tasks[i].name = log[k].name

\* C20 witness: the first enabled source returned, the second raised, and
\* the one failure line names the second
C20_Witness ==
    /\ FetchAllDone
    /\ Len(tasks) = 2
    /\ tasks[1].st = "returned"
    /\ tasks[2].st = "raised"
    /\ log = <<[msg |-> "fetch_failed", name |-> tasks[2].name]>>

(* ================= properties of fetch_sources' log =================== *)
\* C21: when fetch_sources has returned, every named source whose fetch
\* raised has a failure line in the log carrying its name.
C21_SourcesFailureLogged ==
    FetchSourcesDone =>
        \A i \in 1..Len(tasks) :
            tasks[i].st = "raised" =>
                \E k \in 1..Len(log) :
                    log[k].msg = "fetch_failed" /\ log[k].name = tasks[i].name

(* ================== order of the stages of `run` ====================== *)
\* C24: the collaborators of `run` are invoked in the order analysis,
\* report generation, mail, and only after fetch_all has returned; the
\* report is generate_html exactly with html_only; the mail is sent only
\* with send_email set and dry_run not set, after a report was generated.
C24_StageOrder ==
    LET report == IF run.opt.html_only THEN "generate_html" ELSE "generate"
        full == <<"analyze", report, "send_report">>
    IN RunStarted =>
         /\ Len(run.stages) <= 3
         /\ run.stages = SubSeq(full, 1, Len(run.stages))
         /\ run.stages # <<>> =>
               pc = "done" /\ ret.kind = "return" /\ ret.items # <<>>
         /\ Len(run.stages) = 3 => run.opt.send_email /\ ~ run.opt.dry_run
         /\ run.pc = "email" => run.opt.send_email /\ ~ run.opt.dry_run

\* C24 witness: a run with send_email and without dry_run has gone through
\* analysis, report and mail, in that order, and exited
C24_Witness ==
    /\ run.pc = "exited"
    /\ run.stages = <<"analyze", "generate", "send_report">>
    /\ run.opt.send_email
    /\ ~ run.opt.dry_run

(* ================ properties of the response parser =================== *)
\* the payload has the shape the parser expects: an object whose
\* project_suggestions, when given, is a list of objects and whose trends,
\* when given, is a list
ExpectedShape(response) ==
    LET data == response.payload
    IN /\ data.k = "obj"
       /\ data.trends.k \in {"missing", "list"}
       /\ data.project_suggestions.k \in {"missing", "list"}
       /\ \A i \in 1..Len(data.project_suggestions.v) :
             data.project_suggestions.v[i] = "dict"

\* C25: _parse_response never raises; the result's raw_response is the
\* input, and for a payload that has not the expected shape its trends,
\* opportunities and project_suggestions are empty.
C25_ParseNeverRaises ==
    /\ wb.pc # "raised"
    /\ wb.pc = "returned" =>
         /\ wb.result.raw_response = wb.response
         /\ ~ ExpectedShape(wb.response) =>
               /\ wb.result.trends = JEmptyList
               /\ wb.result.opportunities = JEmptyList
               /\ wb.result.project_suggestions = <<>>

(* ============ properties of fetch_all's source instances ============== *)
\* ids of the instances caller c created
IdsOf(c) == {aux.calls[c].insts[i].id : i \in 1..Len(aux.calls[c].insts)}

\* C22: a fetch_all call holds one instance per source that was enabled
\* when it was called, all of them distinct objects; each fetch it invokes
\* is on one of its own instances, with its own limit, at most once per
\* instance and exactly once by the time gather is complete; two calls
\* have no instance in common.
C22_FreshInstances ==
    /\ \A c \in Callers :
         LET k == aux.calls[c]
             enabled == SelectSeq(k.reg, Enabled)
         IN k.st # "idle" =>
              /\ Len(k.insts) = Len(enabled)
              /\ \A i \in 1..Len(k.insts) : k.insts[i].cls = enabled[i]
              /\ \A i, j \in 1..Len(k.insts) :
                    k.insts[i].id = k.insts[j].id => i = j
              /\ \A f \in 1..Len(k.fetched) :
                    /\ k.fetched[f].limit = k.limit
                    /\ k.fetched[f].id \in IdsOf(c)
              /\ \A f, g \in 1..Len(k.fetched) :
                    k.fetched[f].id = k.fetched[g].id => f = g
              /\ k.st = "done" => Len(k.fetched) = Len(k.insts)
    /\ \A c, d \in Callers : c # d => IdsOf(c) \cap IdsOf(d) = {}

\* C22 witness: both calls are inside gather at the same time, with
\* different limits, two instances each and a fetch running in each
C22_Witness ==
    /\ aux.pc = "calls"
    /\ \A c \in Callers :
          /\ aux.calls[c].st = "gather"
          /\ Len(aux.calls[c].insts) = 2
          /\ \E i \in 1..2 : aux.calls[c].tasks[i] = "running"
    /\ aux.calls["a"].limit # aux.calls["b"].limit

====
